---- MODULE Spec2Model ----
(***************************************************************************)
(* Board engine of dream-go (src/go/mod.rs, src/go/circular_buf.rs): the   *)
(* vertex array with its sentinel cells, the circular next_vertex group    *)
(* lists, placement with capture, legality (suicide and super-ko), the     *)
(* six-deep snapshot history and the zobrist hash.                         *)
(*                                                                         *)
(* The board is Width columns by rows rows instead of 19 x 19: Height rows  *)
(* where whole games are played, TallHeight rows where single calls of the *)
(* liberty planes and of the ladder search are examined on opening         *)
(* positions, SetupHeight rows where a position is set up stone by stone.  *)
(* The zobrist table is fixed per behaviour: one bit per entry, or entries *)
(* of fewer bits than the board has vertices.  Everything else follows the *)
(* source statement by statement.                                          *)
(***************************************************************************)
EXTENDS Integers, Sequences, FiniteSets, TLC

\* ---------------------------------------------------------------- bounds
\* columns and rows of the board (19 and 19 in the source)
Width == 3
Height == 2
\* rows of the taller board of SpecTall, and place calls per behaviour there
TallHeight == 4
MaxTallMoves == 3
\* place calls per behaviour in Spec and SpecValid
MaxMoves == 6
\* place calls per behaviour in SpecHistory: one more than the history holds
MaxPushes == 7
\* place calls on each of the two boards in SpecClone
MaxCloneMoves == 2
\* rows of the board of SpecSetup, and stones set up per behaviour there
SetupHeight == 5
MaxSetupStones == 5

\* ------------------------------------------------------------- constants
Black == 1
White == 2
EMPTY == 0
OFF_BOARD == 255
HistoryLen == 6
NumSentinels == 7
SmallSetCapacity == 8
U16 == 65536
None == -1

\* the number of rows of the board of this behaviour, fixed by Init
VARIABLE rows

NumVertices == Width * rows
NumCells == NumVertices + NumSentinels
Vertex == 0 .. (NumVertices - 1)
Cell == 0 .. (NumCells - 1)
Colors == {Black, White}

opposite(color) == IF color = Black THEN White ELSE Black

\* --------------------------------------------- directional neighbour tables
Sentinel == NumVertices

N(index) == IF index < NumVertices /\ index + Width < NumVertices
            THEN index + Width ELSE Sentinel
E(index) == IF index < NumVertices /\ (index % Width) + 1 < Width
            THEN index + 1 ELSE Sentinel
S(index) == IF index < NumVertices /\ index >= Width
            THEN index - Width ELSE Sentinel
W(index) == IF index < NumVertices /\ (index % Width) > 0
            THEN index - 1 ELSE Sentinel

\* the four neighbours in the order the source visits them
Dirs(index) == << N(index), E(index), S(index), W(index) >>

\* ------------------------------------------------------------ zobrist table
RECURSIVE Pow2(_)
Pow2(n) == IF n = 0 THEN 1 ELSE 2 * Pow2(n - 1)

\* the table of this behaviour, fixed by Init
VARIABLE table

\* a table whose entries have one bit each, all different: no set of stones
\* cancels
WideTable ==
    [c \in Colors |-> [index \in Vertex |-> Pow2((c - 1) * NumVertices + index)]]

\* a table of different non-zero entries that has, like 64-bit entries for
\* 361 vertices, fewer bits than the board has vertices
NarrowTable ==
    [c \in Colors |-> [index \in Vertex |-> (c - 1) * NumVertices + index + 1]]

TABLE(c, index) == table[c][index]

RECURSIVE Xor(_, _)
Xor(a, b) ==
    IF a = 0 THEN b
    ELSE IF b = 0 THEN a
    ELSE (((a % 2) + (b % 2)) % 2) + 2 * Xor(a \div 2, b \div 2)

\* ------------------------------------------------------------------ SmallSet
SmallSetNew == << >>

SmallSetContains(set, value) == \E k \in 1 .. Len(set) : set[k] = value

SmallSetPush(set, value) ==
    LET rest == SelectSeq(set, LAMBDA z : z # value)
        all == Append(rest, value)
    IN  IF Len(all) > SmallSetCapacity THEN Tail(all) ELSE all

SmallSetIter(set) == set

\* --------------------------------------------------------------- CircularBuf
N_MOD_SIX(p) == (p + 1) % HistoryLen
P_MOD_SIX(p) == (p + HistoryLen - 1) % HistoryLen

ZeroBuf == [i \in Cell |-> 0]

CircularBufNew == [position |-> 0, buf |-> [k \in 0 .. (HistoryLen - 1) |-> ZeroBuf]]

\* push that writes the slot but does not advance position
CircularBufPush_stuck(h, snapshot) ==
    [position |-> h.position,
     buf |-> [h.buf EXCEPT ![h.position] = snapshot]]

CircularBufPush(h, snapshot) ==
    [position |-> N_MOD_SIX(h.position),
     buf |-> [h.buf EXCEPT ![h.position] = snapshot]]

RECURSIVE IterFrom(_, _, _)
IterFrom(h, position, cnt) ==
    IF cnt = HistoryLen THEN << >>
    ELSE << h.buf[position] >> \o IterFrom(h, P_MOD_SIX(position), cnt + 1)

\* the snapshots newest first, as CircularIterator yields them
CircularBufIter(h) == IterFrom(h, P_MOD_SIX(h.position), 0)

\* ------------------------------------------------------------ group traversal
\* The vertices visited by `loop { ...; current = next_vertex[current];
\* if current == index { break } }`, in order.  The walk is cut after
\* NumVertices + 1 visits: a longer walk never comes back to index.
RECURSIVE Walk(_, _, _, _)
Walk(next_vertex, index, current, acc) ==
    LET seen == Append(acc, current)
        nxt == next_vertex[current]
    IN  IF nxt = index \/ Len(seen) > NumVertices
        THEN seen
        ELSE Walk(next_vertex, index, nxt, seen)

Group(next_vertex, index) == Walk(next_vertex, index, index, << >>)

\* the vertices one pass over the cycle visits
GroupSet(nv, v) == {Group(nv, v)[k] : k \in 1 .. Len(Group(nv, v))}

\* the loop of the source terminates
Returns(next_vertex, index) ==
    LET g == Group(next_vertex, index)
    IN  Len(g) <= NumVertices /\ next_vertex[g[Len(g)]] = index

\* the empty neighbours of `current` in the order N, E, S, W
EmptyAround(vertices, current) ==
    SelectSeq(Dirs(current), LAMBDA d : vertices[d] = EMPTY)

RECURSIVE Flatten(_)
Flatten(ss) == IF ss = << >> THEN << >> ELSE Head(ss) \o Flatten(Tail(ss))

\* every empty neighbour the traversal looks at, in the order it does
LibertySeq(vertices, next_vertex, index) ==
    LET g == Group(next_vertex, index)
    IN  Flatten([k \in 1 .. Len(g) |-> EmptyAround(vertices, g[k])])

get_one_liberty(vertices, next_vertex, index) ==
    LET ls == LibertySeq(vertices, next_vertex, index)
    IN  IF ls = << >> THEN None ELSE ls[1]

has_one_liberty(vertices, next_vertex, index) ==
    get_one_liberty(vertices, next_vertex, index) # None

\* _has_two_liberties that counts every empty neighbour it looks at
_has_two_liberties_count(vertices, next_vertex, index) ==
    Len(LibertySeq(vertices, next_vertex, index)) >= 2

\* `previous` holds the last empty neighbour seen; true as soon as the next
\* one differs from it
_has_two_liberties(vertices, next_vertex, index) ==
    LET ls == LibertySeq(vertices, next_vertex, index)
    IN  \E k \in 1 .. (Len(ls) - 1) : ls[k] # ls[k + 1]

\* --------------------------------------------------------------------- Board
\* The fields of the board under study, and the boards cloned from it.
VARIABLES vertices, next_vertex, history, count, zobrist_hash, zobrist_history,
          clones

fields == << vertices, next_vertex, history, count, zobrist_hash, zobrist_history >>

vars == << rows, table, vertices, next_vertex, history, count, zobrist_hash, zobrist_history,
           clones >>

\* the board as one value
Self == [vertices |-> vertices, next_vertex |-> next_vertex, history |-> history,
         count |-> count, zobrist_hash |-> zobrist_hash,
         zobrist_history |-> zobrist_history]

BoardNew ==
    [vertices |-> [i \in Cell |-> IF i < NumVertices THEN EMPTY ELSE OFF_BOARD],
     next_vertex |-> [i \in Vertex |-> 0],
     history |-> CircularBufNew,
     count |-> 0,
     zobrist_hash |-> 0,
     zobrist_history |-> SmallSetNew]

at(b, index) ==
    IF b.vertices[index] = Black THEN Black
    ELSE IF b.vertices[index] = White THEN White
    ELSE None

\* capture: walk the cycle, xor every stone out of the hash and empty its cell
RECURSIVE CaptureLoop(_, _, _)
CaptureLoop(b, g, k) ==
    IF k > Len(g) THEN b
    ELSE LET current == g[k]
             c == b.vertices[current]
         IN  CaptureLoop([b EXCEPT !.zobrist_hash = Xor(@, TABLE(c, current)),
                                   !.vertices[current] = EMPTY], g, k + 1)

\* capture that forgets to update the hash
capture_nohash(b, index) ==
    [b EXCEPT !.vertices = CaptureLoop(b, Group(b.next_vertex, index), 1).vertices]

capture(b, index) == CaptureLoop(b, Group(b.next_vertex, index), 1)

RECURSIVE CaptureIfLoop(_, _, _, _)
CaptureIfLoop(color, g, k, adjustment) ==
    IF k > Len(g) THEN adjustment
    ELSE CaptureIfLoop(color, g, k + 1, Xor(adjustment, TABLE(color, g[k])))

capture_if(b, color, index) ==
    CaptureIfLoop(color, Group(b.next_vertex, index), 1, 0)

\* join_vertices without the look-up of other on the chain of index
join_vertices_nocheck(nv, index, other) ==
    [nv EXCEPT ![other] = nv[index], ![index] = nv[other]]

\* join_vertices that forgets the second of its two writes
join_vertices_half(nv, index, other) ==
    IF \E k \in 1 .. Len(Group(nv, index)) : Group(nv, index)[k] = other
    THEN nv
    ELSE [nv EXCEPT ![other] = nv[index]]

\* splice the chains of index and other unless other is already on the chain
\* that starts at index
join_vertices(nv, index, other) ==
    IF \E k \in 1 .. Len(Group(nv, index)) : Group(nv, index)[k] = other
    THEN nv
    ELSE LET index_prev == nv[index]
             other_prev == nv[other]
         IN  [nv EXCEPT ![other] = index_prev, ![index] = other_prev]

RECURSIVE JoinLoop(_, _, _, _, _)
JoinLoop(vs, nv, player, index, k) ==
    IF k > 4 THEN nv
    ELSE LET d == Dirs(index)[k]
         IN  JoinLoop(vs,
                      IF vs[d] = player THEN join_vertices(nv, index, d) ELSE nv,
                      player, index, k + 1)

\* place_no_capture that leaves the stale next_vertex[index] in place
place_no_capture_stale(vs, nv, color, index) ==
    LET vs1 == [vs EXCEPT ![index] = color]
    IN  [vertices |-> vs1, next_vertex |-> JoinLoop(vs1, nv, color, index, 1)]

\* the pair (vertices, next_vertex) after place_no_capture
place_no_capture(vs, nv, color, index) ==
    LET vs1 == [vs EXCEPT ![index] = color]
        nv1 == [nv EXCEPT ![index] = index]
    IN  [vertices |-> vs1, next_vertex |-> JoinLoop(vs1, nv1, color, index, 1)]

\* the four capture tests chained with `else if`: at most one group is removed
RECURSIVE ClearLoop_elseif(_, _, _, _)
ClearLoop_elseif(b, opponent, index, k) ==
    IF k > 4 THEN b
    ELSE LET d == Dirs(index)[k]
         IN  IF b.vertices[d] = opponent
                /\ ~has_one_liberty(b.vertices, b.next_vertex, d)
             THEN capture(b, d)
             ELSE ClearLoop_elseif(b, opponent, index, k + 1)

RECURSIVE ClearLoop(_, _, _, _)
ClearLoop(b, opponent, index, k) ==
    IF k > 4 THEN b
    ELSE LET d == Dirs(index)[k]
         IN  ClearLoop(IF b.vertices[d] = opponent
                          /\ ~has_one_liberty(b.vertices, b.next_vertex, d)
                       THEN capture(b, d) ELSE b,
                       opponent, index, k + 1)

\* place that also takes the placed group off the board when it is left
\* without a liberty
place_suicide(b, color, index) ==
    LET p == place_no_capture(b.vertices, b.next_vertex, color, index)
        b1 == [b EXCEPT !.vertices = p.vertices,
                        !.next_vertex = p.next_vertex,
                        !.count = (@ + 1) % U16,
                        !.zobrist_hash = Xor(@, TABLE(color, index))]
        b2 == ClearLoop(b1, opposite(color), index, 1)
        b3 == IF has_one_liberty(b2.vertices, b2.next_vertex, index) THEN b2
              ELSE capture(b2, index)
    IN  [b3 EXCEPT !.history = CircularBufPush(@, b3.vertices),
                   !.zobrist_history = SmallSetPush(@, b3.zobrist_hash)]

\* place that records the hash before the captures are applied
place_push_first(b, color, index) ==
    LET p == place_no_capture(b.vertices, b.next_vertex, color, index)
        b1 == [b EXCEPT !.vertices = p.vertices,
                        !.next_vertex = p.next_vertex,
                        !.count = (@ + 1) % U16,
                        !.zobrist_hash = Xor(@, TABLE(color, index))]
        b2 == ClearLoop(b1, opposite(color), index, 1)
    IN  [b2 EXCEPT !.history = CircularBufPush(@, b2.vertices),
                   !.zobrist_history = SmallSetPush(@, b1.zobrist_hash)]

place(b, color, index) ==
    LET p == place_no_capture(b.vertices, b.next_vertex, color, index)
        b1 == [b EXCEPT !.vertices = p.vertices,
                        !.next_vertex = p.next_vertex,
                        !.count = (@ + 1) % U16,
                        !.zobrist_hash = Xor(@, TABLE(color, index))]
        b2 == ClearLoop(b1, opposite(color), index, 1)
    IN  [b2 EXCEPT !.history = CircularBufPush(@, b2.vertices),
                   !.zobrist_history = SmallSetPush(@, b2.zobrist_hash)]

has_two_liberties(b, index) == _has_two_liberties(b.vertices, b.next_vertex, index)

\* _is_valid that is content with a friendly neighbour that has one liberty
_is_valid_one(b, color, index) ==
    /\ b.vertices[index] = EMPTY
    /\ \/ \E k \in 1 .. 4 : b.vertices[Dirs(index)[k]] = EMPTY
       \/ \E k \in 1 .. 4 :
             LET d == Dirs(index)[k]
             IN  /\ b.vertices[d] # OFF_BOARD
                 /\ (b.vertices[d] = color)
                      = (IF b.vertices[d] = color
                         THEN has_one_liberty(b.vertices, b.next_vertex, d)
                         ELSE has_two_liberties(b, d))

\* _is_valid that takes any opponent neighbour for a capture
_is_valid_capture(b, color, index) ==
    /\ b.vertices[index] = EMPTY
    /\ \/ \E k \in 1 .. 4 : b.vertices[Dirs(index)[k]] = EMPTY
       \/ \E k \in 1 .. 4 :
             LET d == Dirs(index)[k]
             IN  /\ b.vertices[d] # OFF_BOARD
                 /\ (b.vertices[d] # color \/ has_two_liberties(b, d))

\* _is_valid that takes any friendly neighbour for a connection to liberties
_is_valid_friend(b, color, index) ==
    /\ b.vertices[index] = EMPTY
    /\ \/ \E k \in 1 .. 4 : b.vertices[Dirs(index)[k]] = EMPTY
       \/ \E k \in 1 .. 4 :
             LET d == Dirs(index)[k]
             IN  /\ b.vertices[d] # OFF_BOARD
                 /\ (b.vertices[d] = color \/ ~has_two_liberties(b, d))

_is_valid(b, color, index) ==
    /\ b.vertices[index] = EMPTY
    /\ \/ \E k \in 1 .. 4 : b.vertices[Dirs(index)[k]] = EMPTY
       \/ \E k \in 1 .. 4 :
             LET d == Dirs(index)[k]
             IN  /\ b.vertices[d] # OFF_BOARD
                 /\ (b.vertices[d] = color) = has_two_liberties(b, d)

RECURSIVE KoLoop(_, _, _, _, _)
KoLoop(b, opponent, index, k, zobrist_pretend) ==
    IF k > 4 THEN zobrist_pretend
    ELSE LET d == Dirs(index)[k]
         IN  KoLoop(b, opponent, index, k + 1,
                    IF b.vertices[d] = opponent /\ ~has_two_liberties(b, d)
                    THEN Xor(zobrist_pretend, capture_if(b, opponent, d))
                    ELSE zobrist_pretend)

\* the hash _is_ko looks up in zobrist_history
zobrist_pretend(b, color, index) ==
    KoLoop(b, opposite(color), index, 1, Xor(b.zobrist_hash, TABLE(color, index)))

_is_ko(b, color, index) ==
    SmallSetContains(b.zobrist_history, zobrist_pretend(b, color, index))

is_valid(b, color, index) == _is_valid(b, color, index) /\ ~_is_ko(b, color, index)

\* clone that starts the copy with an empty snapshot history
clone_nohistory(b) ==
    [vertices |-> b.vertices,
     next_vertex |-> b.next_vertex,
     history |-> CircularBufNew,
     count |-> b.count,
     zobrist_hash |-> b.zobrist_hash,
     zobrist_history |-> b.zobrist_history]

CircularBufClone(h) == [position |-> h.position, buf |-> h.buf]

clone(b) ==
    [vertices |-> b.vertices,
     next_vertex |-> b.next_vertex,
     history |-> CircularBufClone(b.history),
     count |-> b.count,
     zobrist_hash |-> b.zobrist_hash,
     zobrist_history |-> b.zobrist_history]

\* Iterator::zip stops with the shorter of the two sequences
Zip(xs, ys) ==
    [k \in 1 .. (IF Len(xs) < Len(ys) THEN Len(xs) ELSE Len(ys)) |-> << xs[k], ys[k] >>]

\* == that compares the zobrist_history entries only
eq_history(a, b) ==
    LET zs == Zip(SmallSetIter(a.zobrist_history), SmallSetIter(b.zobrist_history))
    IN  \A k \in 1 .. Len(zs) : zs[k][1] = zs[k][2]

\* == that compares the vertices only
eq_vertices(a, b) ==
    \A i \in Cell : a.vertices[i] = b.vertices[i]

\* PartialEq for Board
eq(a, b) ==
    LET zs == Zip(SmallSetIter(a.zobrist_history), SmallSetIter(b.zobrist_history))
    IN  /\ \A k \in 1 .. Len(zs) : zs[k][1] = zs[k][2]
        /\ \A i \in Cell : a.vertices[i] = b.vertices[i]

\* Hash for Board: the values handed to state.write_u64, in order
hash(b) == SmallSetIter(b.zobrist_history)

\* ------------------------------------------------------------------ scoring
U8 == 256

\* the stones of the colour in the order of `for index in 0..361`
RECURSIVE StonesFrom(_, _, _)
StonesFrom(vs, current, index) ==
    IF index = NumVertices THEN << >>
    ELSE IF vs[index] = current
         THEN << index >> \o StonesFrom(vs, current, index + 1)
         ELSE StonesFrom(vs, current, index + 1)

\* the four tests of one popped probe, N, E, S, W in turn
RECURSIVE RelaxLoop(_, _, _, _, _)
RelaxLoop(b, index, t, k, st) ==
    IF k > 4 THEN st
    ELSE LET d == Dirs(index)[k]
         IN  RelaxLoop(b, index, t, k + 1,
                       IF b.vertices[d] = EMPTY /\ st.territory[d] > t
                       THEN [territory |-> [st.territory EXCEPT ![d] = t],
                             probes |-> Append(st.probes, d)]
                       ELSE st)

RECURSIVE ProbeLoop(_, _)
ProbeLoop(b, st) ==
    IF st.probes = << >> THEN st.territory
    ELSE LET index == Head(st.probes)
             t == (st.territory[index] + 1) % U8
         IN  ProbeLoop(b, RelaxLoop(b, index, t, 1,
                                    [territory |-> st.territory,
                                     probes |-> Tail(st.probes)]))

\* a distance pass that also steps onto occupied vertices
get_territory_distance_through(b, color) ==
    LET stones == StonesFrom(b.vertices, color, 0)
        RECURSIVE Through(_)
        Through(st) ==
            IF st.probes = << >> THEN st.territory
            ELSE LET index == Head(st.probes)
                     t == (st.territory[index] + 1) % U8
                     fresh == {k \in 1 .. 4 :
                                 /\ b.vertices[Dirs(index)[k]] # OFF_BOARD
                                 /\ st.territory[Dirs(index)[k]] > t}
                     cells == {Dirs(index)[k] : k \in fresh}
                 IN  Through([territory |-> [i \in Cell |->
                                               IF i \in cells THEN t
                                               ELSE st.territory[i]],
                              probes |-> Tail(st.probes) \o
                                         SelectSeq(<< N(index), E(index),
                                                      S(index), W(index) >>,
                                                   LAMBDA d : d \in cells)])
    IN  Through([territory |-> [i \in Cell |->
                                  IF i \in Vertex /\ b.vertices[i] = color
                                  THEN 0 ELSE OFF_BOARD],
                 probes |-> stones])

\* a distance pass that never pushes a vertex it has updated
get_territory_distance_once(b, color) ==
    [i \in Cell |->
        IF i \in Vertex /\ b.vertices[i] = color THEN 0
        ELSE IF /\ b.vertices[i] = EMPTY
                /\ \E k \in 1 .. 4 : b.vertices[Dirs(i)[k]] = color
             THEN 1
        ELSE OFF_BOARD]

get_territory_distance(b, color) ==
    LET stones == StonesFrom(b.vertices, color, 0)
    IN  ProbeLoop(b, [territory |-> [i \in Cell |->
                                       IF i \in Vertex /\ b.vertices[i] = color
                                       THEN 0 ELSE OFF_BOARD],
                      probes |-> stones])

\* the bookkeeping of the probe queue during get_territory_distance: pushes[v]
\* counts the push_back calls for v, longest is the greatest length the queue
\* had, lowered tells that a distance already set was written again, and
\* pops counts the pop_front calls.  The pass is followed for at most
\* ProbeFuel pops; finished tells that the queue ran empty within them.
ProbeFuel == 4 * NumVertices

\* the test with >= in place of >
closer_or_level(territory, d, t) == territory[d] >= t

\* the test `territory > t` that guards every push
closer(territory, d, t) == territory[d] > t

RECURSIVE RelaxCount(_, _, _, _, _)
RelaxCount(b, index, t, k, st) ==
    IF k > 4 THEN st
    ELSE LET d == Dirs(index)[k]
             pushed == Append(st.probes, d)
         IN  RelaxCount(b, index, t, k + 1,
                        IF b.vertices[d] = EMPTY /\ closer(st.territory, d, t)
                        THEN [st EXCEPT !.territory = [st.territory EXCEPT ![d] = t],
                                        !.probes = pushed,
                                        !.pushes = [st.pushes EXCEPT ![d] = @ + 1],
                                        !.longest = IF Len(pushed) > @ THEN Len(pushed)
                                                    ELSE @,
                                        !.lowered = @ \/ st.territory[d] # OFF_BOARD]
                        ELSE st)

RECURSIVE ProbeCount(_, _)
ProbeCount(b, st) ==
    IF st.probes = << >> THEN [st EXCEPT !.finished = TRUE]
    ELSE IF st.pops >= ProbeFuel THEN st
    ELSE LET index == Head(st.probes)
             t == (st.territory[index] + 1) % U8
         IN  ProbeCount(b, RelaxCount(b, index, t, 1,
                                      [st EXCEPT !.probes = Tail(st.probes),
                                                 !.pops = @ + 1]))

get_territory_distance_count(b, color) ==
    LET stones == StonesFrom(b.vertices, color, 0)
    IN  ProbeCount(b, [territory |-> [i \in Cell |->
                                        IF i \in Vertex /\ b.vertices[i] = color
                                        THEN 0 ELSE OFF_BOARD],
                       probes |-> stones,
                       pushes |-> [i \in Cell |->
                                     IF i \in Vertex /\ b.vertices[i] = color
                                     THEN 1 ELSE 0],
                       longest |-> Len(stones),
                       lowered |-> FALSE,
                       pops |-> 0,
                       finished |-> FALSE])

\* is_scoreable without the test that both colours have a stone
is_scoreable_any(b) ==
    LET black_distance == get_territory_distance(b, Black)
        white_distance == get_territory_distance(b, White)
    IN  \A i \in Vertex : black_distance[i] = OFF_BOARD \/ white_distance[i] = OFF_BOARD

is_scoreable(b) ==
    LET some_black == \E i \in Vertex : b.vertices[i] = Black
        some_white == \E i \in Vertex : b.vertices[i] = White
        black_distance == get_territory_distance(b, Black)
        white_distance == get_territory_distance(b, White)
    IN  /\ some_black
        /\ some_white
        /\ \A i \in Vertex : black_distance[i] = OFF_BOARD \/ white_distance[i] = OFF_BOARD

\* the loop of get_score over i, carrying << black, white >>
RECURSIVE ScoreLoop(_, _, _, _)
ScoreLoop(black_distance, white_distance, i, score) ==
    IF i = NumVertices THEN score
    ELSE ScoreLoop(black_distance, white_distance, i + 1,
                   IF black_distance[i] = 0 THEN << score[1] + 1, score[2] >>
                   ELSE IF white_distance[i] = 0 THEN << score[1], score[2] + 1 >>
                   ELSE IF white_distance[i] = OFF_BOARD THEN << score[1] + 1, score[2] >>
                   ELSE IF black_distance[i] = OFF_BOARD THEN << score[1], score[2] + 1 >>
                   ELSE score)

\* a score that counts the stones and no territory
get_score_stones(b) ==
    IF b.zobrist_hash # 0
    THEN << Len(StonesFrom(b.vertices, Black, 0)), Len(StonesFrom(b.vertices, White, 0)) >>
    ELSE << 0, 0 >>

get_score(b) ==
    IF b.zobrist_hash # 0
    THEN ScoreLoop(get_territory_distance(b, Black),
                   get_territory_distance(b, White), 0, << 0, 0 >>)
    ELSE << 0, 0 >>

\* ----------------------------------------------------------------- features
NumPlanes == 32
MaxBucket == 6

\* Order::index for the CHW layout
CHW(c, i) == c * NumVertices + i

\* the identity table of the symmetry module
symmetry_table(index) == index

\* asm::count_zeros: the number of zero bytes in the scratch array
count_zeros(liberties) == Cardinality({i \in Cell : liberties[i] = 0})

\* the scratch array [0xff; 384]; only the Cell part of it is ever written
Scratch == [i \in Cell |-> OFF_BOARD]

\* the neighbours written as index + 19, index + 1, index - 19, index - 1
Offset(index, k) == << index + Width, index + 1, index - Width, index - 1 >>[k]

RECURSIVE FillLoop(_, _, _, _)
FillLoop(vs, members, k, liberties) ==
    IF k > Len(members) THEN liberties
    ELSE LET current == members[k]
         IN  FillLoop(vs, members, k + 1,
                      [liberties EXCEPT ![N(current)] = vs[N(current)],
                                        ![E(current)] = vs[E(current)],
                                        ![S(current)] = vs[S(current)],
                                        ![W(current)] = vs[W(current)]])

fill_liberties(b, vs, index, liberties) ==
    FillLoop(vs, Group(b.next_vertex, index), 1, liberties)

\* get_num_liberties that trusts whatever the memoize entry holds
get_num_liberties_zero(b, index, memoize) ==
    [num |-> memoize[index], memoize |-> memoize]

\* get_num_liberties that records the count for the stone at index only
get_num_liberties_single(b, index, memoize) ==
    IF memoize[index] # 0
    THEN [num |-> memoize[index], memoize |-> memoize]
    ELSE LET num_liberties == count_zeros(fill_liberties(b, b.vertices, index, Scratch))
         IN  [num |-> num_liberties,
              memoize |-> [memoize EXCEPT ![index] = num_liberties]]

get_num_liberties(b, index, memoize) ==
    IF memoize[index] # 0
    THEN [num |-> memoize[index], memoize |-> memoize]
    ELSE LET liberties == fill_liberties(b, b.vertices, index, Scratch)
             num_liberties == count_zeros(liberties)
             members == GroupSet(b.next_vertex, index)
         IN  [num |-> num_liberties,
              memoize |-> [i \in Cell |-> IF i \in members THEN num_liberties
                                          ELSE memoize[i]]]

\* the four neighbour tests of _is_valid_memoize, N, E, S, W in turn
RECURSIVE ValidLoop(_, _, _, _, _)
ValidLoop(b, color, index, k, memoize) ==
    IF k > 4 THEN [valid |-> FALSE, memoize |-> memoize]
    ELSE LET n == b.vertices[Dirs(index)[k]]
         IN  IF n = OFF_BOARD
             THEN ValidLoop(b, color, index, k + 1, memoize)
             ELSE LET r == get_num_liberties(b, Offset(index, k), memoize)
                  IN  IF (n = color) = (r.num >= 2)
                      THEN [valid |-> TRUE, memoize |-> r.memoize]
                      ELSE ValidLoop(b, color, index, k + 1, r.memoize)

_is_valid_memoize(b, color, index, memoize) ==
    IF \E k \in 1 .. 4 : b.vertices[Dirs(index)[k]] = EMPTY
    THEN [valid |-> TRUE, memoize |-> memoize]
    ELSE ValidLoop(b, color, index, 1, memoize)

capture_other(b, vs, index) ==
    LET members == GroupSet(b.next_vertex, index)
    IN  [i \in Cell |-> IF i \in members THEN EMPTY ELSE vs[i]]

\* the four capture tests of get_num_liberties_if, N, E, S, W in turn
RECURSIVE CaptureOtherLoop(_, _, _, _, _)
CaptureOtherLoop(b, opponent, index, k, st) ==
    IF k > 4 THEN st
    ELSE IF st.vertices[Dirs(index)[k]] = opponent
         THEN LET r == get_num_liberties(b, Offset(index, k), st.memoize)
              IN  CaptureOtherLoop(b, opponent, index, k + 1,
                     [vertices |-> IF r.num = 1
                                   THEN capture_other(b, st.vertices, Offset(index, k))
                                   ELSE st.vertices,
                      memoize |-> r.memoize])
         ELSE CaptureOtherLoop(b, opponent, index, k + 1, st)

RECURSIVE FillFriendsLoop(_, _, _, _, _, _)
FillFriendsLoop(b, vs, current, index, k, liberties) ==
    IF k > 4 THEN liberties
    ELSE FillFriendsLoop(b, vs, current, index, k + 1,
                         IF vs[Dirs(index)[k]] = current
                         THEN fill_liberties(b, vs, Offset(index, k), liberties)
                         ELSE liberties)

\* get_num_liberties_if that counts on the board as it is, captures not applied
get_num_liberties_if_nocapture(b, color, index, memoize) ==
    LET vs == [b.vertices EXCEPT ![index] = color]
        friends == FillFriendsLoop(b, vs, color, index, 1, Scratch)
        liberties == [friends EXCEPT ![N(index)] = vs[N(index)],
                                     ![E(index)] = vs[E(index)],
                                     ![S(index)] = vs[S(index)],
                                     ![W(index)] = vs[W(index)]]
    IN  [num |-> count_zeros(liberties), memoize |-> memoize]

\* get_num_liberties_if that adds up the counts of the friendly neighbour
\* groups and of the new stone, each group on its own scratch array
get_num_liberties_if_sum(b, color, index, memoize) ==
    LET placed == [b.vertices EXCEPT ![index] = color]
        st == CaptureOtherLoop(b, opposite(color), index, 1,
                               [vertices |-> placed, memoize |-> memoize])
        vs == st.vertices
        friends == {Offset(index, k) : k \in {j \in 1 .. 4 : vs[Dirs(index)[j]] = color}}
        firsts == {v \in friends :
                     \A u \in friends :
                        u \in GroupSet(b.next_vertex, v) => v <= u}
        RECURSIVE Sum(_)
        Sum(set) ==
            IF set = {} THEN 0
            ELSE LET v == CHOOSE v \in set : TRUE
                 IN  count_zeros(fill_liberties(b, vs, v, Scratch)) + Sum(set \ {v})
    IN  [num |-> Sum(firsts) + Len(EmptyAround(vs, index)), memoize |-> st.memoize]

get_num_liberties_if(b, color, index, memoize) ==
    LET placed == [b.vertices EXCEPT ![index] = color]
        st == CaptureOtherLoop(b, opposite(color), index, 1,
                               [vertices |-> placed, memoize |-> memoize])
        vs == st.vertices
        friends == FillFriendsLoop(b, vs, color, index, 1, Scratch)
        liberties == [friends EXCEPT ![N(index)] = vs[N(index)],
                                     ![E(index)] = vs[E(index)],
                                     ![S(index)] = vs[S(index)],
                                     ![W(index)] = vs[W(index)]]
    IN  [num |-> count_zeros(liberties), memoize |-> st.memoize]

Min(a, b) == IF a < b THEN a ELSE b

\* the first loop of get_features: the constant planes and the liberties
RECURSIVE LibertyLoop(_, _, _, _)
LibertyLoop(b, color, index, st) ==
    IF index = NumVertices THEN st
    ELSE LET other == symmetry_table(index)
             is_black == IF color = Black THEN 1 ELSE 0
             base == [st.features EXCEPT ![CHW(0, other)] = 1,
                                         ![CHW(1, other)] = is_black]
         IN  IF b.vertices[index] # EMPTY
             THEN LET r == get_num_liberties(b, index, st.liberties)
                      num_liberties == Min(r.num, MaxBucket)
                      l == IF b.vertices[index] = color THEN 1 + num_liberties
                           ELSE 19 + num_liberties
                  IN  LibertyLoop(b, color, index + 1,
                                  [features |-> [base EXCEPT ![CHW(l, other)] = 1],
                                   liberties |-> r.memoize])
             ELSE LET v == _is_valid_memoize(b, color, index, st.liberties)
                  IN  IF v.valid
                      THEN LET r == get_num_liberties_if(b, color, index, v.memoize)
                               l == 7 + Min(r.num, MaxBucket)
                           IN  LibertyLoop(b, color, index + 1,
                                           [features |-> [base EXCEPT ![CHW(l, other)] = 1],
                                            liberties |-> r.memoize])
                      ELSE LibertyLoop(b, color, index + 1,
                                       [features |-> base, liberties |-> v.memoize])

\* the second loop of get_features: entry CHW(14 + i, other) is written for
\* a stone of color in snapshot i at index, CHW(26 + i, other) for any other
\* stone there, and nothing is ever cleared; read here from the entry's side
HistoryPlanes(b, color, features) ==
    LET snapshots == CircularBufIter(b.history)
    IN  [o \in DOMAIN features |->
            LET p == o \div NumVertices
                index == CHOOSE index \in Vertex : symmetry_table(index) = o % NumVertices
            IN  IF /\ p \in 14 .. (14 + Len(snapshots) - 1)
                   /\ snapshots[p - 13][index] = color
                THEN 1
                ELSE IF /\ p \in 26 .. (26 + Len(snapshots) - 1)
                        /\ snapshots[p - 25][index] # EMPTY
                        /\ snapshots[p - 25][index] # color
                THEN 1
                ELSE features[o]]

\* get_features that files every stone of a snapshot under the player to move
get_features_ours(b, color) ==
    LET st == LibertyLoop(b, color, 0,
                          [features |-> [o \in 0 .. (NumPlanes * NumVertices - 1) |-> 0],
                           liberties |-> [i \in Cell |-> 0]])
        snapshots == CircularBufIter(b.history)
    IN  [o \in DOMAIN st.features |->
            IF /\ o \div NumVertices \in 14 .. 19
               /\ snapshots[o \div NumVertices - 13][o % NumVertices] # EMPTY
            THEN 1 ELSE st.features[o]]

\* get_features::<_, CHW>(color, Transform::Identity)
get_features(b, color) ==
    LET st == LibertyLoop(b, color, 0,
                          [features |-> [o \in 0 .. (NumPlanes * NumVertices - 1) |-> 0],
                           liberties |-> [i \in Cell |-> 0]])
    IN  HistoryPlanes(b, color, st.features)

\* ------------------------------------------------------------------ ladders
\* The ladder search works on copies of vertices and next_vertex.  A call
\* either returns a boolean or never returns: a loop over next_vertex that is
\* not a cycle through its starting vertex has no exit.
Return(v) == [returns |-> TRUE, value |-> v]
Hang == [returns |-> FALSE, value |-> FALSE]
Stuck == -2

\* join_vertices walks from index until it meets other or index again
JoinStuck(nv, index, other) ==
    /\ \A k \in 1 .. Len(Group(nv, index)) : Group(nv, index)[k] # other
    /\ ~Returns(nv, index)

\* some join_vertices call of place_no_capture never returns
RECURSIVE JoinLoopStuck(_, _, _, _, _)
JoinLoopStuck(vs, nv, player, index, k) ==
    IF k > 4 THEN FALSE
    ELSE LET d == Dirs(index)[k]
         IN  IF vs[d] = player
             THEN \/ JoinStuck(nv, index, d)
                  \/ JoinLoopStuck(vs, join_vertices(nv, index, d), player, index, k + 1)
             ELSE JoinLoopStuck(vs, nv, player, index, k + 1)

PlaceStuck(vs, nv, color, index) ==
    JoinLoopStuck([vs EXCEPT ![index] = color], [nv EXCEPT ![index] = index],
                  color, index, 1)

\* _has_two_liberties finds no second liberty and never comes back to index
TwoLibertiesStuck(vs, nv, index) ==
    ~_has_two_liberties(vs, nv, index) /\ ~Returns(nv, index)

\* check!(N), check!(E), check!(S), check!(W): the liberty of the first
\* neighbouring opponent group that is left with one, None when there is no
\* such group, Stuck when a traversal on the way never returns
RECURSIVE opponent_index(_, _, _, _, _)
opponent_index(vs, nv, opponent, index, k) ==
    IF k > 4 THEN None
    ELSE LET d == Dirs(index)[k]
         IN  IF vs[d] # opponent THEN opponent_index(vs, nv, opponent, index, k + 1)
             ELSE IF _has_two_liberties(vs, nv, d)
                  THEN opponent_index(vs, nv, opponent, index, k + 1)
             ELSE IF ~Returns(nv, d) THEN Stuck
             ELSE IF get_one_liberty(vs, nv, d) # None THEN get_one_liberty(vs, nv, d)
             ELSE opponent_index(vs, nv, opponent, index, k + 1)

\* the number of empty vertices among the four neighbours of index
EmptyNeighbours(vs, index) == Len(EmptyAround(vs, index))

\* the test for a stone of ours put into atari by the extension: TRUE or
\* FALSE for the outcome of the four tests, Stuck when one never returns
RECURSIVE PlayerInAtari(_, _, _, _, _)
PlayerInAtari(vs, nv, player, index, k) ==
    IF k > 4 THEN Return(FALSE)
    ELSE IF vs[Dirs(index)[k]] = player
         THEN IF TwoLibertiesStuck(vs, nv, Offset(index, k)) THEN Hang
              ELSE IF ~_has_two_liberties(vs, nv, Offset(index, k)) THEN Return(TRUE)
              ELSE PlayerInAtari(vs, nv, player, index, k + 1)
         ELSE PlayerInAtari(vs, nv, player, index, k + 1)

RECURSIVE _is_ladder_capture(_, _, _, _)
RECURSIVE check_recursive(_, _, _, _, _)

\* check_recursive!(N), (E), (S), (W) in turn, each on its own copies
check_recursive(vs, nv, color, index, k) ==
    IF k > 4 THEN Return(FALSE)
    ELSE IF vs[Dirs(index)[k]] = EMPTY
         THEN LET r == _is_ladder_capture(vs, nv, color, Dirs(index)[k])
              IN  IF ~r.returns THEN Hang
                  ELSE IF r.value THEN Return(TRUE)
                  ELSE check_recursive(vs, nv, color, index, k + 1)
         ELSE check_recursive(vs, nv, color, index, k + 1)

_is_ladder_capture(vs, nv, color, index) ==
    IF PlaceStuck(vs, nv, color, index) THEN Hang
    ELSE LET p == place_no_capture(vs, nv, color, index)
             other == opponent_index(p.vertices, p.next_vertex, opposite(color), index, 1)
         IN  IF other = Stuck THEN Hang
             ELSE IF other = None THEN Return(FALSE)
             ELSE IF PlaceStuck(p.vertices, p.next_vertex, opposite(color), other) THEN Hang
             ELSE LET e == place_no_capture(p.vertices, p.next_vertex, opposite(color), other)
                      opponent_count == EmptyNeighbours(e.vertices, other)
                      atari == PlayerInAtari(e.vertices, e.next_vertex, color, other, 1)
                  IN  IF opponent_count < 2 THEN Return(TRUE)
                      ELSE IF opponent_count > 2 THEN Return(FALSE)
                      ELSE IF ~atari.returns THEN Hang
                      ELSE IF atari.value THEN Return(FALSE)
                      ELSE check_recursive(e.vertices, e.next_vertex, color, other, 1)

\* is_ladder_capture that searches for the other colour
is_ladder_capture_opposite(b, color, index) ==
    _is_ladder_capture(b.vertices, b.next_vertex, opposite(color), index)

\* is_ladder_capture that hands the search a copy on which the stone of the
\* move already stands
is_ladder_capture_placed(b, color, index) ==
    LET p == place_no_capture(b.vertices, b.next_vertex, color, index)
    IN  _is_ladder_capture(p.vertices, p.next_vertex, color, index)

is_ladder_capture(b, color, index) ==
    _is_ladder_capture(b.vertices, b.next_vertex, color, index)

\* check_ladder!(N), (E), (S), (W) in turn: TRUE when one of the searches
\* returns true
RECURSIVE check_ladder(_, _, _, _, _)
check_ladder(vs, nv, color, index, k) ==
    IF k > 4 THEN Return(FALSE)
    ELSE LET next_index == Dirs(index)[k]
         IN  IF next_index < NumVertices
             THEN LET r == _is_ladder_capture(vs, nv, color, next_index)
                  IN  IF ~r.returns THEN Hang
                      ELSE IF r.value THEN Return(TRUE)
                      ELSE check_ladder(vs, nv, color, index, k + 1)
             ELSE check_ladder(vs, nv, color, index, k + 1)

is_ladder_escape(b, color, index) ==
    LET connected_to_one ==
            \E k \in 1 .. 4 :
               /\ b.vertices[Dirs(index)[k]] = color
               /\ ~has_two_liberties(b, Offset(index, k))
        p == place_no_capture(b.vertices, b.next_vertex, color, index)
        liberty_count == EmptyNeighbours(p.vertices, index)
        ladder == check_ladder(p.vertices, p.next_vertex, color, index, 1)
    IN  IF ~connected_to_one THEN Return(FALSE)
        ELSE IF liberty_count # 2 THEN Return(FALSE)
        ELSE IF ~ladder.returns THEN Hang
        ELSE IF ladder.value THEN Return(FALSE)
        ELSE Return(TRUE)

\* the vertices the search writes a stone to: TRUE when each of them is empty
\* in the working copy at the moment of the place_no_capture call.  The
\* operators follow _is_ladder_capture, check_recursive!, check_ladder! and
\* is_ladder_escape call by call and stop where these stop.
RECURSIVE CapturePlacesOnEmpty(_, _, _, _)
RECURSIVE RecursivePlacesOnEmpty(_, _, _, _, _)

RecursivePlacesOnEmpty(vs, nv, color, index, k) ==
    IF k > 4 THEN TRUE
    ELSE IF vs[Dirs(index)[k]] = EMPTY
         THEN LET r == _is_ladder_capture(vs, nv, color, Dirs(index)[k])
              IN  /\ CapturePlacesOnEmpty(vs, nv, color, Dirs(index)[k])
                  /\ IF ~r.returns \/ r.value THEN TRUE
                     ELSE RecursivePlacesOnEmpty(vs, nv, color, index, k + 1)
         ELSE RecursivePlacesOnEmpty(vs, nv, color, index, k + 1)

CapturePlacesOnEmpty(vs, nv, color, index) ==
    /\ vs[index] = EMPTY
    /\ IF PlaceStuck(vs, nv, color, index) THEN TRUE
       ELSE LET p == place_no_capture(vs, nv, color, index)
                other == opponent_index(p.vertices, p.next_vertex, opposite(color), index, 1)
            IN  IF other = Stuck \/ other = None THEN TRUE
                ELSE /\ p.vertices[other] = EMPTY
                     /\ IF PlaceStuck(p.vertices, p.next_vertex, opposite(color), other)
                        THEN TRUE
                        ELSE LET e == place_no_capture(p.vertices, p.next_vertex,
                                                       opposite(color), other)
                                 atari == PlayerInAtari(e.vertices, e.next_vertex,
                                                        color, other, 1)
                             IN  IF EmptyNeighbours(e.vertices, other) # 2 THEN TRUE
                                 ELSE IF ~atari.returns \/ atari.value THEN TRUE
                                 ELSE RecursivePlacesOnEmpty(e.vertices, e.next_vertex,
                                                             color, other, 1)

RECURSIVE LadderPlacesOnEmpty(_, _, _, _, _)
LadderPlacesOnEmpty(vs, nv, color, index, k) ==
    IF k > 4 THEN TRUE
    ELSE LET next_index == Dirs(index)[k]
         IN  IF next_index < NumVertices
             THEN LET r == _is_ladder_capture(vs, nv, color, next_index)
                  IN  /\ CapturePlacesOnEmpty(vs, nv, color, next_index)
                      /\ IF ~r.returns \/ r.value THEN TRUE
                         ELSE LadderPlacesOnEmpty(vs, nv, color, index, k + 1)
             ELSE LadderPlacesOnEmpty(vs, nv, color, index, k + 1)

EscapePlacesOnEmpty(b, color, index) ==
    LET connected_to_one ==
            \E k \in 1 .. 4 :
               /\ b.vertices[Dirs(index)[k]] = color
               /\ ~has_two_liberties(b, Offset(index, k))
        p == place_no_capture(b.vertices, b.next_vertex, color, index)
    IN  IF ~connected_to_one THEN TRUE
        ELSE /\ b.vertices[index] = EMPTY
             /\ IF EmptyNeighbours(p.vertices, index) # 2 THEN TRUE
                ELSE LadderPlacesOnEmpty(p.vertices, p.next_vertex, color, index, 1)

\* the number of nested recursive calls of _is_ladder_capture below one call:
\* 0 when the call returns without check_recursive!, otherwise one more than
\* the deepest of the calls that check_recursive! makes before it returns
RECURSIVE CaptureDepth(_, _, _, _)
RECURSIVE RecursiveDepth(_, _, _, _, _)

RecursiveDepth(vs, nv, color, index, k) ==
    IF k > 4 THEN 0
    ELSE IF vs[Dirs(index)[k]] = EMPTY
         THEN LET r == _is_ladder_capture(vs, nv, color, Dirs(index)[k])
                  d == 1 + CaptureDepth(vs, nv, color, Dirs(index)[k])
                  rest == RecursiveDepth(vs, nv, color, index, k + 1)
              IN  IF ~r.returns \/ r.value THEN d
                  ELSE IF rest > d THEN rest ELSE d
         ELSE RecursiveDepth(vs, nv, color, index, k + 1)

CaptureDepth(vs, nv, color, index) ==
    IF PlaceStuck(vs, nv, color, index) THEN 0
    ELSE LET p == place_no_capture(vs, nv, color, index)
             other == opponent_index(p.vertices, p.next_vertex, opposite(color), index, 1)
         IN  IF other = Stuck \/ other = None THEN 0
             ELSE IF PlaceStuck(p.vertices, p.next_vertex, opposite(color), other) THEN 0
             ELSE LET e == place_no_capture(p.vertices, p.next_vertex, opposite(color), other)
                      atari == PlayerInAtari(e.vertices, e.next_vertex, color, other, 1)
                  IN  IF EmptyNeighbours(e.vertices, other) # 2 THEN 0
                      ELSE IF ~atari.returns \/ atari.value THEN 0
                      ELSE RecursiveDepth(e.vertices, e.next_vertex, color, other, 1)

\* -------------------------------------------------------------- state machine
Install(b) ==
    /\ vertices' = b.vertices
    /\ next_vertex' = b.next_vertex
    /\ history' = b.history
    /\ count' = b.count
    /\ zobrist_hash' = b.zobrist_hash
    /\ zobrist_history' = b.zobrist_history

\* Board::new() on a board of the given number of rows
InitRows(n) ==
    /\ rows = n
    /\ table = WideTable
    /\ vertices = BoardNew.vertices
    /\ next_vertex = BoardNew.next_vertex
    /\ history = BoardNew.history
    /\ count = BoardNew.count
    /\ zobrist_hash = BoardNew.zobrist_hash
    /\ zobrist_history = BoardNew.zobrist_history
    /\ clones = << >>

Init == InitRows(Height)

\* place(color, x, y) by a caller that only checks that the vertex is empty
PlaceUpTo(limit, color, index) ==
    /\ count < limit
    /\ vertices[index] = EMPTY
    /\ Install(place(Self, color, index))
    /\ UNCHANGED << clones, rows, table >>

Place(color, index) == PlaceUpTo(MaxMoves, color, index)

\* place(color, x, y) by a caller that asked is_valid first
PlaceValid(color, index) ==
    /\ count < MaxMoves
    /\ is_valid(Self, color, index) = TRUE    \* one guard, evaluated as a value
    /\ Install(place(Self, color, index))
    /\ UNCHANGED << clones, rows, table >>

Next == \E color \in Colors, index \in Vertex : Place(color, index)

Spec == Init /\ [][Next]_vars

NextValid == \E color \in Colors, index \in Vertex : PlaceValid(color, index)

SpecValid == Init /\ [][NextValid]_vars

\* the same play with a table of fewer bits than the board has vertices
InitNarrow ==
    /\ rows = Height
    /\ table = NarrowTable
    /\ vertices = BoardNew.vertices
    /\ next_vertex = BoardNew.next_vertex
    /\ history = BoardNew.history
    /\ count = BoardNew.count
    /\ zobrist_hash = BoardNew.zobrist_hash
    /\ zobrist_history = BoardNew.zobrist_history
    /\ clones = << >>

SpecNarrow == InitNarrow /\ [][NextValid]_vars

\* the first is_valid-gated place calls on the taller board
InitTall == InitRows(TallHeight)

PlaceTall(color, index) ==
    /\ count < MaxTallMoves
    /\ is_valid(Self, color, index) = TRUE
    /\ Install(place(Self, color, index))
    /\ UNCHANGED << clones, rows, table >>

NextTall == \E color \in Colors, index \in Vertex : PlaceTall(color, index)

SpecTall == InitTall /\ [][NextTall]_vars

\* a game record replayed without the is_valid gate, Black first and the
\* colours alternating, long enough for the snapshot history to wrap
ToMove == IF count % 2 = 0 THEN Black ELSE White

PlaceLong(index) == PlaceUpTo(MaxPushes, ToMove, index)

NextHistory == \E index \in Vertex : PlaceLong(index)

SpecHistory == Init /\ [][NextHistory]_vars

\* a board, one clone of it, and place calls on either of the two
PlaceOriginal(color, index) == PlaceUpTo(MaxCloneMoves, color, index)

Clone ==
    /\ clones = << >>
    /\ clones' = << clone(Self) >>
    /\ UNCHANGED << fields, rows, table >>

PlaceClone(color, index) ==
    /\ clones # << >>
    /\ clones[1].count < MaxCloneMoves
    /\ clones[1].vertices[index] = EMPTY
    /\ clones' = << place(clones[1], color, index) >>
    /\ UNCHANGED << fields, rows, table >>

NextClone ==
    \/ \E color \in Colors, index \in Vertex : PlaceOriginal(color, index)
    \/ Clone
    \/ \E color \in Colors, index \in Vertex : PlaceClone(color, index)

SpecClone == Init /\ [][NextClone]_vars

\* a position set up with place calls the way the tests of the source do it:
\* no is_valid gate, either colour, the vertices taken in index order
InitSetup == InitRows(SetupHeight)

PlaceSetup(color, index) ==
    /\ \A v \in Vertex : v >= index => vertices[v] = EMPTY
    /\ PlaceUpTo(MaxSetupStones, color, index)

NextSetup == \E color \in Colors, index \in Vertex : PlaceSetup(color, index)

SpecSetup == InitSetup /\ [][NextSetup]_vars

\* ------------------------------------------------- the rules of Go, directly
\* Orthogonal adjacency from the coordinates (index = Width * y + x).
Adjacent(i, j) ==
    LET xi == i % Width
        yi == i \div Width
        xj == j % Width
        yj == j \div Width
    IN  \/ xi = xj /\ (yi = yj + 1 \/ yj = yi + 1)
        \/ yi = yj /\ (xi = xj + 1 \/ xj = xi + 1)

RECURSIVE Grow(_, _, _)
Grow(vs, color, set) ==
    LET more == {j \in Vertex \ set : vs[j] = color /\ \E i \in set : Adjacent(i, j)}
    IN  IF more = {} THEN set ELSE Grow(vs, color, set \cup more)

\* the maximal set of same-coloured stones orthogonally connected to v
Component(vs, v) == Grow(vs, vs[v], {v})

\* the empty vertices next to some stone of the set
LibertiesOf(vs, set) == {j \in Vertex : vs[j] = EMPTY /\ \E i \in set : Adjacent(i, j)}

Liberties(vs, v) == LibertiesOf(vs, Component(vs, v))

Occupied(vs) == {v \in Vertex : vs[v] \in Colors}

RECURSIVE HashFrom(_, _)
HashFrom(vs, i) ==
    IF i = NumVertices THEN 0
    ELSE IF vs[i] \in Colors THEN Xor(TABLE(vs[i], i), HashFrom(vs, i + 1))
    ELSE HashFrom(vs, i + 1)

\* the xor of TABLE[color][index] over the occupied (color, index)
HashOf(vs) == HashFrom(vs, 0)

RECURSIVE ReachGrow(_, _)
ReachGrow(vs, set) ==
    LET more == {j \in Vertex \ set : vs[j] = EMPTY /\ \E i \in set : Adjacent(i, j)}
    IN  IF more = {} THEN set ELSE ReachGrow(vs, set \cup more)

\* the stones of a colour and the empty vertices that a path of empty
\* vertices connects to one of them
Reachable(vs, color) == ReachGrow(vs, {v \in Vertex : vs[v] = color})

\* the vertices Tromp-Taylor scoring counts for a colour
Area(vs, color) ==
    {v \in Vertex :
        \/ vs[v] = color
        \/ /\ vs[v] = EMPTY
           /\ v \in Reachable(vs, color)
           /\ v \notin Reachable(vs, opposite(color))}

\* the position before the last place call, and what that call did
Snapshots == CircularBufIter(history)
Prev == Snapshots[2]
NewStones == {v \in Vertex : Prev[v] = EMPTY /\ vertices[v] \in Colors}
CapturedCells == {v \in Vertex : Prev[v] \in Colors /\ vertices[v] = EMPTY}

\* ---------------------------------------------------------------------- C1
\* C1: after is_valid-gated place calls every group of stones on the board has
\* at least one liberty.
C1_EveryGroupHasLiberty ==
    \A v \in Occupied(vertices) : Liberties(vertices, v) # {}

\* a gated capture has just happened and a group stands in atari
C1_Witness ==
    /\ count >= 2
    /\ CapturedCells # {}
    /\ \E v \in Occupied(vertices) : Cardinality(Liberties(vertices, v)) = 1

\* ---------------------------------------------------------------------- C2
\* C2: zobrist_hash is the xor of TABLE[color][index] over exactly the occupied
\* (color, index) pairs, whatever was placed and captured.
C2_HashIsXorOfStones == zobrist_hash = HashOf(vertices)

\* the last place call captured two separate groups at once
C2_Witness ==
    /\ count >= 2
    /\ \E u, v \in CapturedCells : v \notin Component(Prev, u)

\* ---------------------------------------------------------------------- C3
\* C3: a move onto an empty vertex whose resulting zobrist_hash is already in
\* zobrist_history is rejected by is_valid.
C3_SuperkoRejected ==
    \A color \in Colors, index \in Vertex :
        (/\ vertices[index] = EMPTY
         /\ SmallSetContains(zobrist_history, place(Self, color, index).zobrist_hash))
        => ~is_valid(Self, color, index)

\* ---------------------------------------------------------------------- C4
\* C4: from every occupied vertex the next_vertex walk comes back to it within
\* NumVertices steps and visits only stones of the same colour.
C4_CycleReturnsSameColour ==
    \A v \in Occupied(vertices) :
        /\ Returns(next_vertex, v)
        /\ \A u \in GroupSet(next_vertex, v) : vertices[u] = vertices[v]

\* a cell that was emptied by a capture holds a stone again, in a group of
\* several stones
C4_Witness ==
    \E v \in Occupied(vertices) :
        /\ \E j \in 2 .. HistoryLen, k \in 3 .. HistoryLen :
              j < k /\ Snapshots[k][v] \in Colors /\ Snapshots[j][v] = EMPTY
        /\ Cardinality(Component(vertices, v)) >= 2

C6_PlaceCapturesExactlyDead ==
    \A color \in Colors, index \in Vertex :
        vertices[index] = EMPTY =>
            LET vs1 == [vertices EXCEPT ![index] = color]
                dead == {u \in Vertex :
                            /\ vs1[u] = opposite(color)
                            /\ Liberties(vs1, u) = {}
                            /\ \E d \in Component(vs1, u) : Adjacent(d, index)}
                after == place(Self, color, index)
            IN  \A u \in Vertex :
                    after.vertices[u] = IF u \in dead THEN EMPTY ELSE vs1[u]

\* the last place call removed a group and left another opponent stone that
\* touches the new stone on the board
C6_Witness ==
    /\ count >= 2
    /\ CapturedCells # {}
    /\ \E v \in NewStones :
          \E u \in Vertex : Adjacent(u, v) /\ vertices[u] = opposite(vertices[v])

\* ---------------------------------------------------------------------- C7
\* C7: on boards reached by gated play, _is_valid is true exactly for an empty
\* vertex with an empty neighbour, a friendly neighbour group of two or more
\* liberties, or an opponent neighbour group of exactly one liberty.
C7_PseudoLegal ==
    \A color \in Colors, index \in Vertex :
        _is_valid(Self, color, index) <=>
            /\ vertices[index] = EMPTY
            /\ \/ \E u \in Vertex : Adjacent(u, index) /\ vertices[u] = EMPTY
               \/ \E u \in Vertex :
                     /\ Adjacent(u, index)
                     /\ vertices[u] = color
                     /\ Cardinality(Liberties(vertices, u)) >= 2
               \/ \E u \in Vertex :
                     /\ Adjacent(u, index)
                     /\ vertices[u] = opposite(color)
                     /\ Cardinality(Liberties(vertices, u)) = 1

\* an empty point whose neighbours are all opponent stones with other
\* liberties: suicide for one colour, playable for the other
C7_Witness ==
    \E color \in Colors, index \in Vertex :
        /\ vertices[index] = EMPTY
        /\ \A u \in Vertex :
              Adjacent(u, index) =>
                  /\ vertices[u] = opposite(color)
                  /\ Cardinality(Liberties(vertices, u)) >= 2
        /\ ~_is_valid(Self, color, index)
        /\ _is_valid(Self, opposite(color), index)

\* ---------------------------------------------------------------------- C8
\* C8: once place has returned, zobrist_hash is a member of zobrist_history.
C8_HashInHistory ==
    count > 0 => SmallSetContains(zobrist_history, zobrist_hash)

\* the last place call captured, so the hash it recorded is not the hash with
\* the stone just added
C8_Witness ==
    /\ count >= 3
    /\ CapturedCells # {}
    /\ Len(zobrist_history) >= 3
    /\ zobrist_history[Len(zobrist_history)] = zobrist_hash

\* ---------------------------------------------------------------------- C9
\* C9: the history iterator yields six snapshots, newest first: all zero on a
\* new board, and every place call puts the vertices it leaves in front and
\* drops the oldest of the six.
C9_HistoryNewestFirst ==
    /\ \A k \in 1 .. HistoryLen : Snapshots[k] = ZeroBuf
    /\ [][count' # count =>
            /\ Len(Snapshots') = HistoryLen
            /\ Snapshots'[1] = vertices'
            /\ \A k \in 1 .. (HistoryLen - 1) : Snapshots'[k + 1] = Snapshots[k]]_vars

\* a seventh snapshot has been pushed, over the slot of the first
C9_Witness ==
    /\ count = HistoryLen + 1
    /\ history.position = 1
    /\ Snapshots[1] = vertices
    /\ \A k \in 1 .. HistoryLen : Snapshots[k] # ZeroBuf

\* --------------------------------------------------------------------- C10
\* C10: a clone equals the board it was made from, field by field and under ==,
\* and a place call on either of the two leaves the other as it was.
C10_CloneEqualIndependent ==
    [][/\ (clones = << >> /\ clones' # << >>) =>
            /\ clones'[1] = Self
            /\ eq(clones'[1], Self)
            /\ UNCHANGED fields
       /\ (clones # << >> /\ clones' # clones) => UNCHANGED fields
       /\ (fields' # fields) => clones' = clones]_vars

\* the clone and its original have both been played on, differently
C10_Witness ==
    /\ clones # << >>
    /\ count > 0
    /\ clones[1].count > count
    /\ clones[1].vertices # vertices
    /\ clones[1].history # history

C14_ScoreableIffSeparated ==
    is_scoreable(Self) <=>
        /\ \E v \in Vertex : vertices[v] = Black
        /\ \E v \in Vertex : vertices[v] = White
        /\ Reachable(vertices, Black) \cap Reachable(vertices, White) = {}

\* a scoreable board with territory on which every group has a liberty
C14_Witness ==
    /\ is_scoreable(Self)
    /\ \E v \in Vertex : vertices[v] = EMPTY
    /\ \A v \in Occupied(vertices) : Liberties(vertices, v) # {}

\* --------------------------------------------------------------------- C15
\* every stone on the board belongs to a group with a liberty
NoDeadGroup == \A v \in Occupied(vertices) : Liberties(vertices, v) # {}

\* planes 14..19 and 26..31 of get_features(c) are the stones of c and of its
\* opponent in the six snapshots, newest first
StonePlanesFollowHistory ==
    \A c \in Colors :
        LET features == get_features(Self, c)
        IN  \A k \in 0 .. (HistoryLen - 1), i \in Vertex :
               /\ features[CHW(14 + k, i)] = 1 <=> Snapshots[k + 1][i] = c
               /\ features[CHW(26 + k, i)] = 1 <=> Snapshots[k + 1][i] = opposite(c)
               /\ k >= count => (features[CHW(14 + k, i)] = 0 /\ features[CHW(26 + k, i)] = 0)
               /\ k = 0 => (features[CHW(14, i)] = 1 <=> vertices[i] = c)

LibertyPlanes == (2 .. 7) \cup (20 .. 25)

\* C16: on a board reached by is_valid-gated place calls, get_features(c) has
\* at every occupied vertex exactly one 1 among planes 2..7 and 20..25: in
\* plane 1 + min(L, 6) for a stone of c and in plane 19 + min(L, 6) for a
\* stone of the opponent, L being the liberties of the stone's group; at every
\* empty vertex these planes are all 0.
C16_LibertyPlanes ==
    \A c \in Colors :
        LET features == get_features(Self, c)
        IN  \A i \in Vertex :
               LET L == Cardinality(Liberties(vertices, i))
                   plane == (IF vertices[i] = c THEN 1 ELSE 19) + Min(L, MaxBucket)
               IN  \A p \in LibertyPlanes :
                      features[CHW(p, i)] = 1 <=> (vertices[i] # EMPTY /\ p = plane)

\* a group with more than six liberties, in the last plane of either side
C16_Witness ==
    \E v \in Vertex :
       /\ vertices[v] = Black
       /\ Cardinality(Liberties(vertices, v)) > MaxBucket
       /\ get_features(Self, Black)[CHW(7, v)] = 1
       /\ get_features(Self, White)[CHW(25, v)] = 1

\* --------------------------------------------------------------------- C17
\* C17: on a board reached by is_valid-gated place calls, get_features(c) has
\* at every empty vertex where _is_valid(c, index) holds exactly one 1 among
\* planes 8..13, in plane 7 + min(L', 6), L' being the liberties that the
\* group of the new stone has after place(c) there, captures applied; at
\* occupied vertices and at empty vertices where _is_valid fails planes 8..13
\* are all 0.  Superko plays no part.
C17_LibertiesAfterMove ==
    \A c \in Colors :
        LET features == get_features(Self, c)
        IN  \A i \in Vertex :
               LET after == place(Self, c, i).vertices
                   plane == 7 + Min(Cardinality(Liberties(after, i)), MaxBucket)
               IN  \A p \in 8 .. 13 :
                      features[CHW(p, i)] = 1 <=>
                         /\ vertices[i] = EMPTY
                         /\ _is_valid(Self, c, i)
                         /\ p = plane

\* a move that captures and counts a vertex it empties as a liberty, and a
\* vertex where the opponent's move would be suicide
C17_Witness ==
    /\ \E i \in Vertex :
          /\ vertices[i] = EMPTY
          /\ _is_valid(Self, Black, i)
          /\ LET after == place(Self, Black, i).vertices
             IN  /\ \E v \in Vertex : vertices[v] = White /\ after[v] = EMPTY
                 /\ get_features(Self, Black)
                       [CHW(7 + Cardinality(Liberties(after, i)), i)] = 1
    /\ \E i \in Vertex :
          /\ vertices[i] = EMPTY
          /\ ~_is_valid(Self, White, i)

\* --------------------------------------------------------------------- C18
\* C18: place(c, x, y) onto an empty vertex removes no stone of colour c: the
\* vertex holds c afterwards and every stone of c that was on the board is
\* still there, also when the placed group is left without a liberty.
C18_PlaceKeepsOwnStones ==
    [][count' # count =>
          \E index \in Vertex :
             /\ vertices[index] = EMPTY
             /\ vertices'[index] \in Colors
             /\ \A u \in Vertex \ {index} :
                   /\ vertices'[u] \in {vertices[u], EMPTY}
                   /\ vertices[u] = vertices'[index] => vertices'[u] = vertices[u]]_vars

\* the stone just placed joined stones of its colour and the group has no
\* liberty left
C18_Witness ==
    /\ count > 0
    /\ \E v \in NewStones :
          /\ Liberties(vertices, v) = {}
          /\ Cardinality(Component(vertices, v)) > 1
          /\ \A u \in Component(vertices, v) \ {v} : Prev[u] = vertices[v]

\* --------------------------------------------------------------------- C19
\* the position of a ladder search by color at index, after the first stone
\* and after the opponent's extension into the last liberty of its group
LadderFirst(c, i) == place_no_capture(vertices, next_vertex, c, i)
LadderOther(c, i) ==
    opponent_index(LadderFirst(c, i).vertices, LadderFirst(c, i).next_vertex,
                   opposite(c), i, 1)
LadderExtended(c, i) ==
    place_no_capture(LadderFirst(c, i).vertices, LadderFirst(c, i).next_vertex,
                     opposite(c), LadderOther(c, i))

\* C19: once the opponent has extended into its last liberty, the number of
\* liberties of the whole extended group decides is_ladder_capture: with 0 or
\* 1 it returns true, with 3 or more it returns false (with 2 the search goes
\* on), also when the extension connects the chased group to another group.
C19_ExtendedGroupDecides ==
    \A c \in Colors, i \in Vertex :
        (_is_valid(Self, c, i) /\ LadderOther(c, i) \in Vertex) =>
            LET L == Cardinality(Liberties(LadderExtended(c, i).vertices,
                                           LadderOther(c, i)))
            IN  /\ L < 2 => is_ladder_capture(Self, c, i) = Return(TRUE)
                /\ L > 2 => is_ladder_capture(Self, c, i) = Return(FALSE)

\* --------------------------------------------------------------------- C20
\* in the position after c is placed at i, the opponent's move at d is
\* pseudo-legal and starts a winning ladder
OpponentLadderAt(c, i, d) ==
    /\ d \in Vertex
    /\ LadderFirst(c, i).vertices[d] = EMPTY
    /\ _is_valid(LadderFirst(c, i), opposite(c), d)
    /\ _is_ladder_capture(LadderFirst(c, i).vertices, LadderFirst(c, i).next_vertex,
                          opposite(c), d) = Return(TRUE)

\* C20: is_ladder_escape(color, index) returns false whenever, after color is
\* placed at index, the opponent has a winning ladder capture at one of the
\* on-board neighbours of index; it returns true only if there is no such move.
C20_EscapeRefusedWhenLaddered ==
    \A c \in Colors, i \in Vertex :
        (/\ _is_valid(Self, c, i)
         /\ \E k \in 1 .. 4 : OpponentLadderAt(c, i, Dirs(i)[k]))
            => is_ladder_escape(Self, c, i) = Return(FALSE)

\* --------------------------------------------------------------------- C21
\* C21: is_ladder_escape(color, index) returns true only if the group of the
\* stone tentatively placed at index, with every friendly group it connects
\* to, has exactly two liberties.
C21_EscapeOnlyWithTwoLiberties ==
    \A c \in Colors, i \in Vertex :
        (vertices[i] = EMPTY /\ is_ladder_escape(Self, c, i) = Return(TRUE)) =>
            Cardinality(Liberties(LadderFirst(c, i).vertices, i)) = 2

\* --------------------------------------------------------------------- C22
\* the directions (1 = N, 2 = E, 3 = S, 4 = W) in which index has an opponent
\* group whose number of liberties, once c stands at i, is in the set most
LadderTargets(c, i, most) ==
    {k \in 1 .. 4 :
        /\ LadderFirst(c, i).vertices[Dirs(i)[k]] = opposite(c)
        /\ Cardinality(Liberties(LadderFirst(c, i).vertices, Dirs(i)[k])) \in most}

FirstTarget(c, i, most) ==
    CHOOSE k \in LadderTargets(c, i, most) :
        \A j \in LadderTargets(c, i, most) : k <= j

\* the targets are more than one group
SeveralTargets(c, i, most) ==
    \E j, k \in LadderTargets(c, i, most) :
        Dirs(i)[j] \notin Component(LadderFirst(c, i).vertices, Dirs(i)[k])

\* the extension is played into a liberty of the first target
PursuesFirst(c, i, most) ==
    LadderOther(c, i) \in Liberties(LadderFirst(c, i).vertices,
                                    Dirs(i)[FirstTarget(c, i, most)])

\* C22 as stated: is_ladder_capture returns false when no opponent group next
\* to index is left with at most one liberty, and of several such groups
\* the first in the order N, E, S, W is pursued.
C22_FirstGroupAtMostOne ==
    \A c \in Colors, i \in Vertex :
        vertices[i] = EMPTY =>
            /\ LadderTargets(c, i, {0, 1}) = {}
                  => is_ladder_capture(Self, c, i) = Return(FALSE)
            /\ SeveralTargets(c, i, {0, 1}) => PursuesFirst(c, i, {0, 1})

\* C22: is_ladder_capture returns false when no opponent group next to index
\* is left with exactly one liberty, and otherwise the first such group in
\* the order N, E, S, W is pursued; a group left without liberties is skipped.
C22_FirstGroupExactlyOne ==
    \A c \in Colors, i \in Vertex :
        vertices[i] = EMPTY =>
            IF LadderTargets(c, i, {1}) = {}
            THEN is_ladder_capture(Self, c, i) = Return(FALSE)
            ELSE PursuesFirst(c, i, {1})

\* a group left without liberties stands before the pursued group in the
\* order N, E, S, W
C22_Witness ==
    \E c \in Colors, i \in Vertex :
        /\ vertices[i] = EMPTY
        /\ LadderTargets(c, i, {1}) # {}
        /\ PursuesFirst(c, i, {1})
        /\ \E k \in LadderTargets(c, i, {0}) : k < FirstTarget(c, i, {1})

\* two groups are left with one liberty each and the extension goes to the
\* liberty of the first of them, which is not a liberty of the other
C22_SeveralInAtari ==
    \E c \in Colors, i \in Vertex :
        /\ vertices[i] = EMPTY
        /\ SeveralTargets(c, i, {1})
        /\ PursuesFirst(c, i, {1})
        /\ \E k \in LadderTargets(c, i, {1}) :
              LadderOther(c, i) \notin Liberties(LadderFirst(c, i).vertices, Dirs(i)[k])

\* --------------------------------------------------------------------- C23
\* the length of the shortest path of orthogonal steps through empty vertices
\* from a stone of the colour, ring by ring; 255 where there is no such path
RECURSIVE PathLengths(_, _, _, _)
PathLengths(vs, seen, n, dist) ==
    LET more == {j \in Vertex \ seen : vs[j] = EMPTY /\ \E i \in seen : Adjacent(i, j)}
    IN  IF more = {} THEN dist
        ELSE PathLengths(vs, seen \cup more, n + 1,
                         [v \in Vertex |-> IF v \in more THEN n + 1 ELSE dist[v]])

ShortestPaths(vs, color) ==
    PathLengths(vs, {v \in Vertex : vs[v] = color}, 0,
                [v \in Vertex |-> IF vs[v] = color THEN 0 ELSE 255])

\* the number of orthogonal steps between two vertices on an empty board
Manhattan(i, j) ==
    LET dx == (i % Width) - (j % Width)
        dy == (i \div Width) - (j \div Width)
    IN  (IF dx < 0 THEN -dx ELSE dx) + (IF dy < 0 THEN -dy ELSE dy)

\* C23: get_territory_distance(color) holds, for every vertex of the board, 0
\* for a stone of the colour, for an empty vertex the length of the shortest
\* path through empty vertices from a stone of the colour, and 255 for an
\* empty vertex without such a path and for a stone of the other colour.
C23_ShortestPathThroughEmpty ==
    \A color \in Colors :
        LET territory == get_territory_distance(Self, color)
            paths == ShortestPaths(vertices, color)
        IN  \A v \in Vertex : territory[v] = paths[v]

\* an empty vertex that is only reached by a detour around stones, an empty
\* vertex that is not reached at all, and a stone of the other colour
C23_Witness ==
    \E color \in Colors :
        LET territory == get_territory_distance(Self, color)
        IN  /\ \E v \in Vertex :
                  /\ vertices[v] = EMPTY
                  /\ territory[v] < 255
                  /\ \A u \in Vertex :
                        vertices[u] = color => Manhattan(u, v) < territory[v]
            /\ \E v \in Vertex : vertices[v] = EMPTY /\ territory[v] = 255
            /\ \E v \in Vertex : vertices[v] = opposite(color) /\ territory[v] = 255

\* --------------------------------------------------------------------- C24
\* C24: get_score returns (0, 0) on the board without stones, and on a board
\* with a stone the test zobrist_hash != 0 succeeds and the territory is
\* counted: the score is the one get_score finds past the test.
C24_ShortcutOnlyWhenEmpty ==
    /\ Occupied(vertices) = {} => get_score(Self) = << 0, 0 >>
    /\ Occupied(vertices) # {} =>
          /\ zobrist_hash # 0
          /\ get_score(Self) = ScoreLoop(get_territory_distance(Self, Black),
                                         get_territory_distance(Self, White),
                                         0, << 0, 0 >>)

\* --------------------------------------------------------------------- C25
\* C25: on boards reached by gated play, for every move _is_valid accepts,
\* the tentative hash of _is_ko is the zobrist_hash the board has after place,
\* whatever the shape and the number of the captured groups, so that _is_ko
\* is true exactly when the hash after the move is in zobrist_history.
C25_TentativeHashIsRealHash ==
    \A color \in Colors, index \in Vertex :
        _is_valid(Self, color, index) =>
            /\ zobrist_pretend(Self, color, index)
                  = place(Self, color, index).zobrist_hash
            /\ _is_ko(Self, color, index)
                  <=> SmallSetContains(zobrist_history,
                                       place(Self, color, index).zobrist_hash)

\* --------------------------------------------------------------------- C26
\* C26: on any board reached by place calls onto empty vertices, _is_valid is
\* true exactly for an empty vertex where, after place with its captures, the
\* group of the new stone has a liberty.
C26_ValidIffNotSuicide ==
    \A color \in Colors, index \in Vertex :
        _is_valid(Self, color, index) <=>
            /\ vertices[index] = EMPTY
            /\ Liberties(place(Self, color, index).vertices, index) # {}

\* a board with a group without liberties on it, an accepted move whose only
\* liberties come from its capture, and a refused move that joins a friendly
\* group and takes its last liberty
C26_Witness ==
    /\ \E v \in Occupied(vertices) : Liberties(vertices, v) = {}
    /\ \E color \in Colors, index \in Vertex :
          /\ _is_valid(Self, color, index)
          /\ \A u \in Vertex : Adjacent(u, index) => vertices[u] # EMPTY
          /\ \E u \in Vertex : /\ vertices[u] = opposite(color)
                                /\ place(Self, color, index).vertices[u] = EMPTY
    /\ \E color \in Colors, index \in Vertex :
          /\ vertices[index] = EMPTY
          /\ ~_is_valid(Self, color, index)
          /\ \E u \in Vertex : Adjacent(u, index) /\ vertices[u] = color

\* --------------------------------------------------------------------- C27
\* C27: has_two_liberties(v) is true exactly when the group of v has two or
\* more different empty neighbouring vertices, an empty vertex seen from
\* several stones or sides of the group counting once; has_one_liberty(v) is
\* true exactly when the group has an empty neighbouring vertex.
C27_LibertyTests ==
    \A v \in Occupied(vertices) :
        /\ has_two_liberties(Self, v)
              <=> Cardinality(Liberties(vertices, v)) >= 2
        /\ has_one_liberty(vertices, next_vertex, v)
              <=> Cardinality(Liberties(vertices, v)) >= 1

\* a group whose single liberty is seen from two of its stones, and a group
\* without liberties
C27_Witness ==
    /\ \E v \in Occupied(vertices) :
          /\ Cardinality(Liberties(vertices, v)) = 1
          /\ \E a, b \in Component(vertices, v) :
                /\ a # b
                /\ \A l \in Liberties(vertices, v) : Adjacent(a, l) /\ Adjacent(b, l)
          /\ ~has_two_liberties(Self, v)
          /\ has_one_liberty(vertices, next_vertex, v)
    /\ \E v \in Occupied(vertices) :
          /\ Liberties(vertices, v) = {}
          /\ ~has_one_liberty(vertices, next_vertex, v)

\* --------------------------------------------------------------------- C28
\* the memo that holds the liberty count of every stone of the given groups
\* and nothing else
MemoOf(stones) ==
    [i \in Cell |-> IF i \in stones THEN Cardinality(Liberties(vertices, i)) ELSE 0]

\* the sets of stones made of whole groups
WholeGroups ==
    {stones \in SUBSET Occupied(vertices) :
        \A v \in stones : Component(vertices, v) \subseteq stones}

\* the memo at the end of the first loop of get_features
FinalMemo(color) ==
    LibertyLoop(Self, color, 0,
                [features |-> [o \in 0 .. (NumPlanes * NumVertices - 1) |-> 0],
                 liberties |-> [i \in Cell |-> 0]]).liberties

\* C28: get_num_liberties returns the number of different empty vertices next
\* to the group of index and writes it to memo for every stone of the group,
\* whatever groups memo already holds; the memo get_features ends with holds
\* nothing but true liberty counts, and an answer taken from it is the
\* answer of a fresh computation.
C28_MemoHoldsLibertyCounts ==
    /\ \A stones \in WholeGroups, v \in Occupied(vertices) :
          LET r == get_num_liberties(Self, v, MemoOf(stones))
          IN  /\ r.num = Cardinality(Liberties(vertices, v))
              /\ r.memoize = MemoOf(stones \cup Component(vertices, v))
    /\ \A color \in Colors :
          LET memo == FinalMemo(color)
          IN  /\ memo = MemoOf(Occupied(vertices))
              /\ \A v \in Occupied(vertices) :
                    get_num_liberties(Self, v, memo).num
                      = get_num_liberties(Self, v, MemoOf({})).num

\* a group of two or more stones whose count get_features holds in the memo
\* for each of them, next to a group without liberties, for which the memo
\* holds nothing
C28_Witness ==
    \E color \in Colors :
        /\ \E u, v \in Occupied(vertices) :
              /\ u # v
              /\ u \in Component(vertices, v)
              /\ FinalMemo(color)[u] > 0
              /\ FinalMemo(color)[u] = FinalMemo(color)[v]
        /\ \E v \in Occupied(vertices) :
              /\ Liberties(vertices, v) = {}
              /\ FinalMemo(color)[v] = 0

\* --------------------------------------------------------------------- C29
\* C29: on boards reached by gated play, for every empty vertex and either
\* colour, get_num_liberties_if is the number of liberties that the group of
\* the new stone has after place: a liberty that the merged groups share is
\* counted once and a vertex emptied by a capture is counted.  The memo may
\* be empty or hold the counts of the groups on the board.
C29_LibertiesIfIsLibertiesAfter ==
    \A c \in Colors, i \in Vertex :
        vertices[i] = EMPTY =>
            LET after == Cardinality(Liberties(place(Self, c, i).vertices, i))
            IN  /\ get_num_liberties_if(Self, c, i, MemoOf({})).num = after
                /\ get_num_liberties_if(Self, c, i, MemoOf(Occupied(vertices))).num = after

\* a move that joins two groups with a common liberty, a move that captures
\* and gains the emptied vertex as a liberty, and a move that is suicide
C29_Witness ==
    /\ \E c \in Colors, i \in Vertex :
          /\ vertices[i] = EMPTY
          /\ \E u, w \in Vertex :
                /\ Adjacent(u, i) /\ Adjacent(w, i)
                /\ vertices[u] = c /\ vertices[w] = c
                /\ w \notin Component(vertices, u)
                /\ (Liberties(vertices, u) \cap Liberties(vertices, w)) \ {i} # {}
          /\ get_num_liberties_if(Self, c, i, MemoOf({})).num >= 1
    /\ \E c \in Colors, i \in Vertex :
          /\ vertices[i] = EMPTY
          /\ \E u \in Vertex :
                /\ vertices[u] = opposite(c)
                /\ u \in Liberties(place(Self, c, i).vertices, i)
    /\ \E c \in Colors, i \in Vertex :
          /\ vertices[i] = EMPTY
          /\ ~_is_valid(Self, c, i)
          /\ get_num_liberties_if(Self, c, i, MemoOf({})).num = 0

\* --------------------------------------------------------------------- C30
\* C30: join_vertices(next_vertex, a, b) leaves next_vertex as it is when b is
\* on the cycle through a; otherwise the result has one cycle through a that
\* holds the stones of both cycles, each once, and differs from next_vertex
\* at a and b only.  Checked for every two stones of the board.
C30_JoinSplicesTwoCycles ==
    \A a, b \in Occupied(vertices) :
        LET joined == join_vertices(next_vertex, a, b)
        IN  IF b \in GroupSet(next_vertex, a)
            THEN joined = next_vertex
            ELSE /\ Returns(joined, a)
                 /\ GroupSet(joined, a)
                       = GroupSet(next_vertex, a) \cup GroupSet(next_vertex, b)
                 /\ Len(Group(joined, a))
                       = Len(Group(next_vertex, a)) + Len(Group(next_vertex, b))
                 /\ GroupSet(joined, b) = GroupSet(joined, a)
                 /\ \A v \in Vertex \ {a, b} : joined[v] = next_vertex[v]
                 /\ joined[a] = next_vertex[b]
                 /\ joined[b] = next_vertex[a]

\* two cycles of two or more stones each that join_vertices makes one, and
\* two different stones of one cycle, for which it changes nothing
C30_Witness ==
    /\ \E a, b \in Occupied(vertices) :
          /\ b \notin GroupSet(next_vertex, a)
          /\ Len(Group(next_vertex, a)) >= 2
          /\ Len(Group(next_vertex, b)) >= 2
          /\ Len(Group(join_vertices(next_vertex, a, b), a)) >= 4
    /\ \E a, b \in Occupied(vertices) :
          /\ a # b
          /\ b \in GroupSet(next_vertex, a)
          /\ join_vertices(next_vertex, a, b) = next_vertex

\* --------------------------------------------------------------------- C31
\* C31: every stone that is_ladder_capture, is_ladder_escape and the calls
\* they make put on their working copy goes to a vertex that is empty in the
\* copy; the searches start from a pseudo-legal move on a board of gated play.
C31_SearchPlacesOnEmpty ==
    \A c \in Colors, i \in Vertex :
        _is_valid(Self, c, i) =>
            /\ CapturePlacesOnEmpty(vertices, next_vertex, c, i)
            /\ EscapePlacesOnEmpty(Self, c, i)

\* the part of it that is about is_ladder_capture alone
CaptureSearchPlacesOnEmpty ==
    \A c \in Colors, i \in Vertex :
        _is_valid(Self, c, i) => CapturePlacesOnEmpty(vertices, next_vertex, c, i)

\* --------------------------------------------------------------------- C32
\* C32: is_ladder_escape(color, index) returns for every board of gated play
\* and every pseudo-legal move: each walk along next_vertex that it makes on
\* its working copies comes back to its start or returns early.
C32_EscapeTerminates ==
    \A c \in Colors, i \in Vertex :
        _is_valid(Self, c, i) => is_ladder_escape(Self, c, i).returns

\* --------------------------------------------------------------------- C33
\* C33: is_ladder_capture(color, index) returns for every board of gated play
\* and every pseudo-legal move, and the nesting of its recursive calls is at
\* most half the number of empty vertices of the board: a call that recurses
\* has filled two empty vertices of its copy and emptied none.
Empties == Cardinality({v \in Vertex : vertices[v] = EMPTY})

C33_CaptureTerminates ==
    \A c \in Colors, i \in Vertex :
        _is_valid(Self, c, i) =>
            /\ is_ladder_capture(Self, c, i).returns
            /\ 2 * CaptureDepth(vertices, next_vertex, c, i) <= Empties

C33_Witness ==
    \E c \in Colors, i \in Vertex :
        /\ _is_valid(Self, c, i)
        /\ is_ladder_capture(Self, c, i).returns
        /\ CaptureDepth(vertices, next_vertex, c, i) >= 2

\* --------------------------------------------------------------------- C35
\* C35: on every board get_territory_distance ends; during it no vertex is
\* pushed to the probe queue twice, no distance that was set is written
\* again, and the queue never holds more entries than the board has vertices.
C35_EachVertexProbedOnce ==
    \A c \in Colors :
        LET r == get_territory_distance_count(Self, c)
        IN  /\ r.finished
            /\ \A i \in Cell : r.pushes[i] <= 1
            /\ ~r.lowered
            /\ r.longest <= NumVertices

\* the pass with its bookkeeping yields the distances of get_territory_distance
CountedPassIsThePass ==
    \A c \in Colors :
        get_territory_distance_count(Self, c).territory = get_territory_distance(Self, c)

C35_Witness ==
    \E c \in Colors :
        LET r == get_territory_distance_count(Self, c)
        IN  /\ r.finished
            /\ r.longest >= 4
            /\ \E i \in Vertex :
                  /\ vertices[i] = EMPTY
                  /\ r.pushes[i] = 1
                  /\ r.territory[i] >= 2
                  /\ Cardinality({k \in 1 .. 4 :
                                    r.territory[Dirs(i)[k]] = r.territory[i] - 1}) >= 2

\* --------------------------------------------------------------------- C34
\* C34: whenever is_scoreable() is true, get_score() returns (b, w) with
\* b + w the number of vertices of the board: every vertex is counted for
\* exactly one colour.
C34_ScoreableBoardIsFullyScored ==
    is_scoreable(Self) => get_score(Self)[1] + get_score(Self)[2] = NumVertices

Transposition ==
    /\ clones # << >>
    /\ vertices = clones[1].vertices
    /\ hash(Self) # hash(clones[1])
    /\ ~eq(Self, clones[1])

====
